---- MODULE Spec2Model ----
(***************************************************************************)
(* Model of the pedantagent guess orchestrator (PedantAgent.run) together  *)
(* with the parts of the oracle post-processing (normalize_word,           *)
(* filter_words, suggest_words) and of the Renderer interface              *)
(* (guess, read_state, has_win_marker) that the loop depends on.           *)
(*                                                                         *)
(* Strings are sequences of one-character strings, so that str.strip,      *)
(* str.lower and the substring test are computed and not assumed.          *)
(***************************************************************************)
EXTENDS Integers, Sequences, FiniteSets, TLC

(***************************************************************************)
(* Bounds of the model.                                                    *)
(***************************************************************************)
\* longest warm-up list given to run()
MaxWarmup == 3
\* largest max_guesses given to run()
MaxGuesses == 2
\* longest "words" array in one oracle response, and largest llm_batch_size
MaxOracle == 2
MaxTitle == 1
MaxBody == 2

(***************************************************************************)
(* Characters and strings.                                                 *)
(***************************************************************************)
\* str.strip() with no argument removes leading and trailing whitespace
Whitespace == {" ", "\t", "\n", "\r", "\f"}

\* the second strip of normalize_word: w.strip(" \t\r\n.,;:!?\"()[]{}")
PunctStrip == {" ", "\t", "\r", "\n", ".", ",", ";", ":", "!", "?", "\"",
               "(", ")", "[", "]", "{", "}"}

\* the characters _WORD_RE accepts (the letters used by the model's words)
WordChars == {"a", "b", "c", "e", "g", "h", "i", "n", "o", "r", "t", "v",
              "B", "C", "é", "'", "-"}

\* str.lower() on one character (the capitals used by the words below)
LowerChar(c) ==
    CASE c = "B" -> "b"
      [] c = "C" -> "c"
      [] OTHER -> c

\* str.lower()
Lower(s) == [i \in 1..Len(s) |-> LowerChar(s[i])]

RECURSIVE LStrip(_, _)
LStrip(s, chars) ==
    IF s # <<>> /\ Head(s) \in chars THEN LStrip(Tail(s), chars) ELSE s

RECURSIVE RStrip(_, _)
RStrip(s, chars) ==
    IF s # <<>> /\ s[Len(s)] \in chars
    THEN RStrip(SubSeq(s, 1, Len(s) - 1), chars)
    ELSE s

\* str.strip(chars)
StripChars(s, chars) == RStrip(LStrip(s, chars), chars)

\* str.strip()
Strip(s) == StripChars(s, Whitespace)

\* `sub in s` on strings
Contains(s, sub) ==
    \E i \in 0..(Len(s) - Len(sub)) : SubSeq(s, i + 1, i + Len(sub)) = sub

\* list membership
InSeq(x, seq) == \E i \in 1..Len(seq) : seq[i] = x

\* seq[:n] for n >= 0
Prefix(seq, n) == SubSeq(seq, 1, IF n < Len(seq) THEN n ELSE Len(seq))

(***************************************************************************)
(* Oracle post-processing (llm.py).                                        *)
(***************************************************************************)
\* the default min_len of filter_words, also passed by suggest_words
min_len == 3

\* _WORD_RE.match(w): one or more characters, all letters, ' or -
word_re_match(w) == w # <<>> /\ \A i \in 1..Len(w) : w[i] \in WordChars

normalize_word(w) == StripChars(Lower(Strip(w)), PunctStrip)

RECURSIVE filter_loop(_, _, _, _, _)
filter_loop(words_, tested_, revealed_, minlen, out) ==
    IF words_ = <<>> THEN out
    ELSE LET nw == normalize_word(Head(words_))
             keep == /\ nw # <<>>
                     /\ Len(nw) >= minlen
                     /\ nw \notin tested_
                     /\ nw \notin revealed_
                     /\ ~InSeq(nw, out)
                     /\ word_re_match(nw)
         IN  filter_loop(Tail(words_), tested_, revealed_, minlen,
                         IF keep THEN Append(out, nw) ELSE out)

filter_words(words_, tested_, revealed_, minlen) ==
    filter_loop(words_, tested_, revealed_, minlen, <<>>)

\* The kinds of answer the chat-completion request can give.
\*   request_error : client.chat.completions.create raises
\*   not_json      : the content is not JSON, json.loads raises
\*   not_object    : the content is JSON but not an object, data.get raises
\*   empty_content : the content is None or "", replaced by "{}"
\*   object        : a JSON object whose "words" is the list resp.words
FailingKinds == {"request_error", "not_json", "not_object"}

\* suggest_words: [raised, words]; raised means an exception leaves the call
suggest_words(resp, tested_words, revealed_words) ==
    IF resp.kind \in FailingKinds
    THEN [raised |-> TRUE, words |-> <<>>]
    ELSE [raised |-> FALSE,
          words  |-> filter_words(
                        IF resp.kind = "object" THEN resp.words ELSE <<>>,
                        {normalize_word(x) : x \in tested_words},
                        {normalize_word(revealed_words[i]) :
                             i \in 1..Len(revealed_words)},
                        min_len)]

(***************************************************************************)
(* Inputs of the model.                                                    *)
(***************************************************************************)
chat    == <<"c", "h", "a", "t">>
Chat    == <<"C", "h", "a", "t">>
chat_sp == <<" ", "c", "h", "a", "t">>
blank   == <<" ">>
ChatDot == <<"C", "h", "a", "t", ".">>
ch      == <<"c", "h">>
bon     == <<"b", "o", "n">>

\* raw words the caller may put in the warm-up list
WarmupWords == {chat_sp, Chat, blank, bon}

\* raw words the oracle may answer
OracleWords == {ChatDot, ch, bon}

RECURSIVE SeqsUpTo(_, _)
SeqsUpTo(S, n) ==
    IF n = 0 THEN {<<>>}
    ELSE LET shorter == SeqsUpTo(S, n - 1)
         IN  shorter \cup {Append(q, x) : q \in shorter, x \in S}

WarmupLists == SeqsUpTo(WarmupWords, MaxWarmup)

OracleResponses ==
    {[kind |-> k, words |-> <<>>] :
        k \in FailingKinds \cup {"empty_content"}}
    \cup {[kind |-> "object", words |-> ws] :
              ws \in SeqsUpTo(OracleWords, MaxOracle)}

\* reveal_threshold as a fraction num/den (0.10 is the default of run())
Thresholds == {[num |-> 1, den |-> 10]}

\* GameState values read_state may return (the fields run() reads)
GS(tt, at, rw, trc, ttc, arc, atc) ==
    [title_text |-> tt, article_text |-> at, revealed_words |-> rw,
     title_revealed_count |-> trc, title_token_count |-> ttc,
     article_revealed_count |-> arc, article_token_count |-> atc]

GameStates ==
    { GS(<<>>, <<>>, <<>>, 0, 0, 0, 0),
      GS(<<>>, bon, <<bon>>, 0, 1, 1, 9),
      GS(chat, bon, <<chat, bon>>, 1, 1, 2, 4),
      GS(<<>>, <<"B", "r", "a", "v", "o">>, <<<<"b", "r", "a", "v", "o">>>>,
         0, 1, 1, 1),
      GS(<<"g", "a", "g", "n", "é">>, <<>>, <<<<"g", "a", "g", "n", "é">>>>,
         1, 1, 0, 1) }

\* the state variable before the first read_state of a run
NoState == GS(<<>>, <<>>, <<>>, 0, 0, 0, 0)

\* what self.llm.suggest_words can return or raise at lines 95-100
SuggestOutcomes(tested_words, revealed_words) ==
    {suggest_words(resp, tested_words, revealed_words) :
        resp \in OracleResponses}

(***************************************************************************)
(* State of one PedantAgent and of its run().                              *)
(***************************************************************************)
VARIABLES
    words,                \* run() argument: the warm-up list
    max_guesses,          \* run() argument
    reveal_threshold,     \* run() argument, a fraction [num, den]
    llm_batch_size,       \* run() argument
    llm_enabled,          \* constructor argument (self.llm is set iff it is)
    guesses,              \* local of run()
    warmup_iter,          \* number of items already taken from iter(words)
    mode,                 \* "warmup" or "llm"
    pending_llm_words,    \* local of run()
    sugg,                 \* sugg.words of the last suggest_words call
    w,                    \* the candidate word of the current iteration
    tested,               \* self.tested
    state,                \* the last GameState read
    win_marker,           \* what client.has_win_marker answers on the page read
    left_on,              \* history: the condition that ended warm-up mode
    pc,                   \* position in run()
    result,               \* the RunResult returned, or NoResult
    submitted,            \* the words passed to client.guess, in order
    log,                  \* the calls made on the collaborators, in order
    payload               \* the raw snapshot page.evaluate returned last

args == <<words, max_guesses, reveal_threshold, llm_batch_size>>
ctor == <<llm_enabled>>
vars == <<args, ctor, guesses, warmup_iter, mode, pending_llm_words, sugg, w,
          tested, state, win_marker, left_on, pc, result, submitted, log,
          payload>>

\* w: Optional[str] = None
None == <<"None">>

NoResult == [guesses_made |-> -1, solved |-> FALSE, returned |-> FALSE]

RunResult(g, s) == [guesses_made |-> g, solved |-> s, returned |-> TRUE]

(***************************************************************************)
(* Helpers of the agent and of the Renderer.                               *)
(***************************************************************************)
bravo == <<"b", "r", "a", "v", "o">>
gagn  == <<"g", "a", "g", "n">>

\* PedantAgent._is_solved; has_win_marker is what the Renderer answers to
\* self.client.has_win_marker(self.win_marker_selector)
is_solved(st, has_win_marker) ==
    \/ has_win_marker
    \/ LET low == Lower(st.title_text \o <<" ">> \o st.article_text)
       IN  Contains(low, bravo) \/ Contains(low, gagn)

\* PedantAgent._reveal_ratio, as a fraction
reveal_ratio(st) ==
    LET total_tokens   == st.title_token_count + st.article_token_count
        total_revealed == st.title_revealed_count + st.article_revealed_count
    IN  IF total_tokens # 0
        THEN [num |-> total_revealed, den |-> total_tokens]
        ELSE [num |-> 0, den |-> 1]

\* a >= b on fractions with positive denominators
RatioGE(a, b) == a.num * b.den >= b.num * a.den

\* leave_warmup without the reveal-ratio test
leave_warmup_LastOnly(md, st, thr, word, ws) ==
    /\ md = "warmup"
    /\ word = ws[Len(ws)]

\* the condition of the warm-up exit after a guess (agent.py line 135)
leave_warmup(md, st, thr, word, ws) ==
    /\ md = "warmup"
    /\ \/ RatioGE(reveal_ratio(st), thr)
       \/ word = ws[Len(ws)]

(***************************************************************************)
(* Token classifier (web_client.py).                                       *)
(***************************************************************************)
\* Optional[int]: <<>> is None, <<n>> is the integer n
null == <<>>
Some(n) == <<n>>

DEFAULT_TEXT_COLOR ==
    <<"r", "g", "b", "(", "3", "2", ",", " ", "3", "3", ",", " ", "3", "4",
    ")">>
HIGHLIGHT_GREEN_BG ==
    <<"r", "g", "b", "(", "1", "0", "2", ",", " ", "2", "3", "8", ",", " ",
    "1", "0", "2", ")">>

Digits == <<"0", "1", "2", "3", "4", "5", "6", "7", "8", "9">>

\* str(n) for n >= 0
RECURSIVE NatToStr(_)
NatToStr(n) ==
    IF n < 10 THEN <<Digits[n + 1]>>
    ELSE NatToStr(n \div 10) \o <<Digits[(n % 10) + 1]>>

\* str(n), as an f-string formats an int
IntToStr(n) == IF n < 0 THEN <<"-">> \o NatToStr(-n) ELSE NatToStr(n)

\* the value of a string of decimal digits; -1 when it is not one
RECURSIVE DigitsValue(_, _)
DigitsValue(s, acc) ==
    IF s = <<>> THEN acc
    ELSE LET d == {i \in 1..10 : Digits[i] = Head(s)}
         IN  IF d = {} THEN -1
             ELSE DigitsValue(Tail(s), 10 * acc + (CHOOSE i \in d : TRUE) - 1)

\* s.split(sep) for a one-character separator
RECURSIVE Split(_, _, _)
Split(s, sep, cur) ==
    IF s = <<>> THEN <<cur>>
    ELSE IF Head(s) = sep THEN <<cur>> \o Split(Tail(s), sep, <<>>)
    ELSE Split(Tail(s), sep, Append(cur, Head(s)))

\* int(float(part)) for a part in decimal notation, given as its pieces
\* around the point; <<>> when float() raises ValueError
int_of_pieces(pieces) ==
    IF Len(pieces) > 2 THEN null
    ELSE IF pieces[1] = <<>> /\ (Len(pieces) = 1 \/ pieces[2] = <<>>) THEN null
    ELSE IF DigitsValue(pieces[1], 0) < 0 THEN null
    ELSE IF Len(pieces) = 2 /\ DigitsValue(pieces[2], 0) < 0 THEN null
    ELSE Some(DigitsValue(pieces[1], 0))

\* int(float(part)): digits, optionally a point and digits
int_float(part) == int_of_pieces(Split(part, ".", <<>>))

\* lines 314-319: the tuple, or None after a ValueError
rgb_tuple(r, g, b) ==
    IF r = null \/ g = null \/ b = null THEN null
    ELSE <<r[1], g[1], b[1]>>

\* lines 312-319
rgb_of_parts(parts) ==
    IF Len(parts) < 3 THEN null
    ELSE rgb_tuple(int_float(Strip(parts[1])), int_float(Strip(parts[2])),
                   int_float(Strip(parts[3])))

\* lines 308-319, on the stripped string
rgb_of_stripped(s_) ==
    IF \/ Len(s_) < 5
       \/ SubSeq(s_, 1, 4) # <<"r", "g", "b", "(">>
       \/ s_[Len(s_)] # ")"
    THEN null
    ELSE rgb_of_parts(Split(SubSeq(s_, 5, Len(s_) - 1), ",", <<>>))

\* PedantixWebClient._parse_rgb: <<r, g, b>>, or <<>> for None
parse_rgb(str) == rgb_of_stripped(Strip(str))

\* lines 292-300, in units of 1/510:
\* (r/255 + g/255)/2 - 0.5*b/255 = (r + g - b)/510, clamped to [0, 1]
score_of_rgb(rgb) ==
    IF rgb = null THEN 0
    ELSE IF rgb[1] + rgb[2] - rgb[3] < 0 THEN 0
    ELSE IF rgb[1] + rgb[2] - rgb[3] > 2 * 255 THEN 2 * 255
    ELSE rgb[1] + rgb[2] - rgb[3]

\* PedantixWebClient._hint_score_from_color
hint_score_from_color(color) == score_of_rgb(parse_rgb(color))

\* PedantixWebClient._looks_like_hint
looks_like_hint(color) == color # <<>> /\ color # DEFAULT_TEXT_COLOR

\* placeholder where a measured length of zero is printed too
placeholder_ZeroLength(token_id, hidden_len, prefix) ==
    LET tid == IF token_id # null THEN token_id[1] ELSE -1
    IN  IF hidden_len # null
        THEN <<"⟦", prefix>> \o IntToStr(tid) \o <<"~">>
                 \o IntToStr(hidden_len[1]) \o <<"⟧">>
        ELSE <<"⟦", prefix>> \o IntToStr(tid) \o <<"⟧">>

\* PedantixWebClient._placeholder
placeholder(token_id, hidden_len, prefix) ==
    LET tid == IF token_id # null THEN token_id[1] ELSE -1
    IN  IF hidden_len # null /\ hidden_len[1] # 0 /\ hidden_len[1] > 0
        THEN <<"⟦", prefix>> \o IntToStr(tid) \o <<"~">>
                 \o IntToStr(hidden_len[1]) \o <<"⟧">>
        ELSE <<"⟦", prefix>> \o IntToStr(tid) \o <<"⟧">>

HintWord(word, score) == [word |-> word, score |-> score]

\* the accumulators of _process_tokens before the loop
NoTokens ==
    [words_out |-> <<>>, revealed_words |-> <<>>, hint_words |-> <<>>,
     new_reveal_ids |-> <<>>, token_count |-> 0, revealed_count |-> 0]

\* process_token where the hint case falls through to the revealed case
process_token_NoContinue(acc, t) ==
    LET color  == Strip(t.color)
        bg     == Strip(t.backgroundColor)
        prefix == IF t.inTitle THEN "t" ELSE "w"
        counted == [acc EXCEPT !.token_count = @ + 1]
    IN  IF t.text = None
        THEN [counted EXCEPT
                !.words_out = Append(@, placeholder(t.id, t.hiddenLen, prefix))]
        ELSE LET hinted == IF looks_like_hint(color)
                           THEN [counted EXCEPT
                                   !.words_out = Append(@,
                                       placeholder(t.id, t.hiddenLen, prefix)),
                                   !.hint_words = Append(@,
                                       HintWord(Lower(t.text),
                                                hint_score_from_color(color)))]
                           ELSE counted
                 shown == [hinted EXCEPT
                             !.words_out = Append(@, t.text),
                             !.new_reveal_ids =
                                 IF bg = HIGHLIGHT_GREEN_BG /\ t.id # null
                                 THEN Append(@, t.id[1]) ELSE @]
             IN  IF looks_like_hint(color)
                 THEN [shown EXCEPT
                         !.hint_words = Append(@,
                             HintWord(Lower(t.text),
                                      hint_score_from_color(color)))]
                 ELSE [shown EXCEPT
                         !.revealed_count = @ + 1,
                         !.revealed_words = Append(@, Lower(t.text))]

\* one iteration of the loop of _process_tokens (lines 200-244)
process_token(acc, t) ==
    LET color  == Strip(t.color)
        bg     == Strip(t.backgroundColor)
        prefix == IF t.inTitle THEN "t" ELSE "w"
        counted == [acc EXCEPT !.token_count = @ + 1]
    IN  IF t.text = None
        THEN [counted EXCEPT
                !.words_out = Append(@, placeholder(t.id, t.hiddenLen, prefix))]
        ELSE IF looks_like_hint(color)
        THEN [counted EXCEPT
                !.words_out = Append(@, placeholder(t.id, t.hiddenLen, prefix)),
                !.hint_words = Append(@,
                    HintWord(Lower(t.text), hint_score_from_color(color)))]
        ELSE LET shown == [counted EXCEPT
                             !.words_out = Append(@, t.text),
                             !.new_reveal_ids =
                                 IF bg = HIGHLIGHT_GREEN_BG /\ t.id # null
                                 THEN Append(@, t.id[1]) ELSE @]
             IN  IF looks_like_hint(color)
                 THEN [shown EXCEPT
                         !.hint_words = Append(@,
                             HintWord(Lower(t.text),
                                      hint_score_from_color(color)))]
                 ELSE [shown EXCEPT
                         !.revealed_count = @ + 1,
                         !.revealed_words = Append(@, Lower(t.text))]

\* PedantixWebClient._reconstruct_text: " ".join(words)
RECURSIVE reconstruct_text(_)
reconstruct_text(ws) ==
    IF ws = <<>> THEN <<>>
    ELSE IF Len(ws) = 1 THEN ws[1]
    ELSE ws[1] \o <<" ">> \o reconstruct_text(Tail(ws))

RECURSIVE process_loop(_, _)
process_loop(tokens, acc) ==
    IF tokens = <<>> THEN acc
    ELSE process_loop(Tail(tokens), process_token(acc, Head(tokens)))

\* PedantixWebClient._process_tokens
process_tokens(tokens) ==
    LET acc == process_loop(tokens, NoTokens)
    IN  [text |-> reconstruct_text(acc.words_out),
         revealed_count |-> acc.revealed_count,
         token_count |-> acc.token_count,
         revealed_words |-> acc.revealed_words,
         hint_words |-> acc.hint_words,
         new_reveal_ids |-> acc.new_reveal_ids]

\* dict.fromkeys(ws).keys(): the first occurrence of each element, in order
RECURSIVE fromkeys(_, _)
fromkeys(ws, acc) ==
    IF ws = <<>> THEN acc
    ELSE fromkeys(Tail(ws),
                  IF InSeq(Head(ws), acc) THEN acc ELSE Append(acc, Head(ws)))

\* hint_put where a later occurrence replaces the recorded score
hint_put_Last(hint_map, hw) ==
    LET at == {i \in 1..Len(hint_map) : hint_map[i].word = hw.word}
    IN  IF at = {} THEN Append(hint_map, hw)
        ELSE LET i == CHOOSE j \in at : TRUE
             IN  [hint_map EXCEPT ![i] = hw]

\* one iteration of the merge loop (lines 155-158); the dict is the sequence
\* of its items in insertion order
hint_put(hint_map, hw) ==
    LET at == {i \in 1..Len(hint_map) : hint_map[i].word = hw.word}
    IN  IF at = {} THEN Append(hint_map, hw)
        ELSE LET i == CHOOSE j \in at : TRUE
             IN  IF hw.score > hint_map[i].score
                 THEN [hint_map EXCEPT ![i] = hw]
                 ELSE hint_map

RECURSIVE merge_hints(_, _)
merge_hints(hws, hint_map) ==
    IF hws = <<>> THEN hint_map
    ELSE merge_hints(Tail(hws), hint_put(hint_map, Head(hws)))

\* insert hw behind every element whose score is at least its own
RECURSIVE insert_by_score(_, _)
insert_by_score(sorted, hw) ==
    IF sorted = <<>> THEN <<hw>>
    ELSE IF Head(sorted).score >= hw.score
    THEN <<Head(sorted)>> \o insert_by_score(Tail(sorted), hw)
    ELSE <<hw>> \o sorted

\* sorted(hws, key=lambda x: x.score, reverse=True): stable, descending
RECURSIVE sorted_by_score(_, _)
sorted_by_score(hws, acc) ==
    IF hws = <<>> THEN acc
    ELSE sorted_by_score(Tail(hws), insert_by_score(acc, Head(hws)))

\* sorted(set(ids))
RECURSIVE sorted_set(_)
sorted_set(ids) ==
    IF ids = {} THEN <<>>
    ELSE LET m == CHOOSE x \in ids : \A y \in ids : x <= y
         IN  <<m>> \o sorted_set(ids \ {m})

Range(f) == {f[i] : i \in DOMAIN f}

\* the part of PedantixWebClient.read_state after page.evaluate (132-175)
read_state(p) ==
    LET solution_url == IF p.solutionHref = None \/ p.solutionHref = <<>>
                        THEN None ELSE p.solutionHref
        title   == process_tokens(p.titleSpans)
        article == process_tokens(p.articleSpans)
        hint_map == merge_hints(title.hint_words \o article.hint_words, <<>>)
    IN  [title_text |-> title.text,
         article_text |-> article.text,
         revealed_words |->
             fromkeys(title.revealed_words \o article.revealed_words, <<>>),
         hint_words |-> sorted_by_score(hint_map, <<>>),
         title_revealed_count |-> title.revealed_count,
         title_token_count |-> title.token_count,
         article_revealed_count |-> article.revealed_count,
         article_token_count |-> article.token_count,
         new_reveal_ids |->
             sorted_set(Range(title.new_reveal_ids)
                            \cup Range(article.new_reveal_ids)),
         solved |-> solution_url # None,
         solution_url |-> solution_url]

(***************************************************************************)
(* The page: span.w elements as the script of read_state sees them.        *)
(***************************************************************************)
\* normText: no-break spaces become spaces, runs of white space collapse to
\* one space, and the ends are trimmed
RECURSIVE collapse(_, _)
collapse(s, in_space) ==
    IF s = <<>> THEN <<>>
    ELSE IF Head(s) \in Whitespace \cup {"nbsp"}
    THEN (IF in_space THEN <<>> ELSE <<" ">>) \o collapse(Tail(s), TRUE)
    ELSE <<Head(s)>> \o collapse(Tail(s), FALSE)

normText(s) == StripChars(collapse(s, FALSE), {" "})

Count(s, c) == Cardinality({i \in 1..Len(s) : s[i] = c})

\* countHiddenLen
countHiddenLen(el) ==
    LET nbspCount  == Count(el.textContent, "nbsp")
        spaceCount == Count(el.textContent, " ")
    IN  IF nbspCount >= spaceCount THEN nbspCount ELSE spaceCount

\* readSpan
readSpan(el, inTitle) ==
    LET text     == normText(el.textContent)
        isHidden == Len(text) = 0
    IN  [id |-> IF el.id # <<>> THEN Some(DigitsValue(el.id, 0)) ELSE null,
         text |-> IF Len(text) > 0 THEN text ELSE None,
         inTitle |-> inTitle,
         color |-> el.color,
         backgroundColor |-> el.backgroundColor,
         hiddenLen |-> IF isHidden THEN Some(countHiddenLen(el)) ELSE null]

Span(id, textContent, color, backgroundColor) ==
    [id |-> id, textContent |-> textContent, color |-> color,
     backgroundColor |-> backgroundColor]

yellow ==
    <<"r", "g", "b", "(", "2", "5", "5", ",", " ", "2", "5", "5", ",", " ",
    "0", ")">>
red ==
    <<"r", "g", "b", "(", "2", "5", "5", ",", " ", "0", ",", " ", "0", ")">>
orange ==
    <<"r", "g", "b", "(", "2", "5", "5", ",", " ", "1", "2", "8", ",", " ",
    "0", ")">>
transparent ==
    <<"r", "g", "b", "a", "(", "0", ",", " ", "0", ",", " ", "0", ",", " ",
    "0", ")">>

\* the elements pages are built from: three hidden words, three hinted
\* ones (two spellings of one word, scored differently) and two revealed
Spans ==
    {Span(<<"1", "2">>, <<"nbsp", "nbsp", "nbsp", "nbsp", "nbsp">>,
          DEFAULT_TEXT_COLOR, transparent),
     Span(<<"3">>, <<>>, DEFAULT_TEXT_COLOR, transparent),
     Span(<<>>, <<" ", " ">>, DEFAULT_TEXT_COLOR, transparent),
     Span(<<"4">>, <<" ">> \o Chat, yellow, transparent),
     Span(<<"7">>, chat, red, transparent),
     Span(<<"8">>, <<"B", "o", "n">>, orange, transparent),
     Span(<<"5">>, <<"B", "o", "n">>, DEFAULT_TEXT_COLOR, HIGHLIGHT_GREEN_BG),
     Span(<<>>, chat, <<>>, transparent)}

RECURSIVE readSpans(_, _)
readSpans(els, inTitle) ==
    IF els = <<>> THEN <<>>
    ELSE <<readSpan(Head(els), inTitle)>> \o readSpans(Tail(els), inTitle)

solutionHrefs == {None, <<>>, <<"/", "w">>}

\* what page.evaluate returns
Payload(titleEls, articleEls, solutionHref) ==
    [titleSpans |-> readSpans(titleEls, TRUE),
     articleSpans |-> readSpans(articleEls, FALSE),
     solutionHref |-> solutionHref]

Payloads ==
    {Payload(te, ae, h) : te \in SeqsUpTo(Spans, MaxTitle),
                          ae \in SeqsUpTo(Spans, MaxBody),
                          h \in solutionHrefs}

NoPayload == Payload(<<>>, <<>>, None)

(***************************************************************************)
(* Initial state: a constructed agent at the entry of run().               *)
(***************************************************************************)
Init ==
    /\ words \in WarmupLists
    /\ max_guesses \in 0..MaxGuesses
    /\ reveal_threshold \in Thresholds
    /\ llm_batch_size \in 0..MaxOracle
    /\ llm_enabled \in BOOLEAN
    /\ guesses = 0
    /\ warmup_iter = 0
    /\ mode = "warmup"
    /\ pending_llm_words = <<>>
    /\ sugg = <<>>
    /\ w = None
    /\ tested = {}
    /\ state = NoState
    /\ win_marker = FALSE
    /\ left_on = "none"
    /\ pc = "loop"
    /\ result = NoResult
    /\ submitted = <<>>
    /\ log = <<>>
    /\ payload = NoPayload

(***************************************************************************)
(* The steps of run().                                                     *)
(***************************************************************************)
\* lines 79-81: next(warmup_iter) gives a word
TakeWarmup ==
    /\ pc = "loop" /\ mode = "warmup"
    /\ warmup_iter < Len(words)
    /\ w' = words[warmup_iter + 1]
    /\ warmup_iter' = warmup_iter + 1
    /\ pc' = "candidate"
    /\ UNCHANGED <<args, ctor, guesses, mode, pending_llm_words, sugg,
                   tested, state, win_marker, left_on, result, submitted,
                   log, payload>>

\* lines 82-86: StopIteration
WarmupExhausted ==
    /\ pc = "loop" /\ mode = "warmup"
    /\ warmup_iter >= Len(words)
    /\ mode' = "llm"
    /\ left_on' = "exhausted"
    /\ w' = None
    /\ UNCHANGED <<args, ctor, guesses, warmup_iter, pending_llm_words, sugg,
                   tested, state, win_marker, pc, result, submitted, log,
                   payload>>

\* lines 89-92: empty queue and no oracle
ReturnNoOracle ==
    /\ pc = "loop" /\ mode = "llm"
    /\ pending_llm_words = <<>>
    /\ ~llm_enabled
    /\ result' = RunResult(guesses, FALSE)
    /\ pc' = "returned"
    /\ w' = None
    /\ UNCHANGED <<args, ctor, guesses, warmup_iter, mode, pending_llm_words,
                   sugg, tested, state, win_marker, left_on, submitted, log,
                   payload>>

\* line 93: the read_state before the oracle call
RefillRead ==
    /\ pc = "loop" /\ mode = "llm"
    /\ pending_llm_words = <<>>
    /\ llm_enabled
    /\ \E st \in GameStates : state' = st
    /\ log' = Append(log, "read_state")
    /\ pc' = "suggest"
    /\ w' = None
    /\ UNCHANGED <<args, ctor, guesses, warmup_iter, mode, pending_llm_words,
                   sugg, tested, win_marker, left_on, result, submitted,
                   payload>>

\* lines 95-100: suggest_words raises, nothing in run() catches it
SuggestRaises ==
    /\ pc = "suggest"
    /\ \E sg \in SuggestOutcomes(tested, state.revealed_words) : sg.raised
    /\ log' = Append(log, "suggest_words")
    /\ pc' = "raised"
    /\ UNCHANGED <<args, ctor, guesses, warmup_iter, mode, pending_llm_words,
                   sugg, w, tested, state, win_marker, left_on, result,
                   submitted, payload>>

\* lines 95-106: the first llm_batch_size words are none
SuggestEmpty ==
    /\ pc = "suggest"
    /\ \E sg \in SuggestOutcomes(tested, state.revealed_words) :
              /\ ~sg.raised
              /\ Prefix(sg.words, llm_batch_size) = <<>>
              /\ sugg' = sg.words
    /\ pending_llm_words' = <<>>
    /\ log' = Append(log, "suggest_words")
    /\ result' = RunResult(guesses, FALSE)
    /\ pc' = "returned"
    /\ UNCHANGED <<args, ctor, guesses, warmup_iter, mode, w, tested, state,
                   win_marker, left_on, submitted, payload>>

\* SuggestEnqueue without the [:llm_batch_size] slice of line 101
SuggestEnqueue_NoSlice ==
    /\ pc = "suggest"
    /\ \E sg \in SuggestOutcomes(tested, state.revealed_words) :
              /\ ~sg.raised
              /\ Prefix(sg.words, llm_batch_size) # <<>>
              /\ sugg' = sg.words
              /\ pending_llm_words' = sg.words
    /\ log' = Append(log, "suggest_words")
    /\ pc' = "pop"
    /\ UNCHANGED <<args, ctor, guesses, warmup_iter, mode, w, tested, state,
                   win_marker, left_on, result, submitted, payload>>

\* lines 95-106: the first llm_batch_size words are enqueued
SuggestEnqueue ==
    /\ pc = "suggest"
    /\ \E sg \in SuggestOutcomes(tested, state.revealed_words) :
              /\ ~sg.raised
              /\ Prefix(sg.words, llm_batch_size) # <<>>
              /\ sugg' = sg.words
              /\ pending_llm_words' = Prefix(sg.words, llm_batch_size)
    /\ log' = Append(log, "suggest_words")
    /\ pc' = "pop"
    /\ UNCHANGED <<args, ctor, guesses, warmup_iter, mode, w, tested, state,
                   win_marker, left_on, result, submitted, payload>>

\* line 107: pending_llm_words.pop(0)
PopPending ==
    /\ \/ pc = "pop"
       \/ pc = "loop" /\ mode = "llm" /\ pending_llm_words # <<>>
    /\ w' = Head(pending_llm_words)
    /\ pending_llm_words' = Tail(pending_llm_words)
    /\ pc' = "candidate"
    /\ UNCHANGED <<args, ctor, guesses, warmup_iter, mode, sugg, tested,
                   state, win_marker, left_on, result, submitted, log,
                   payload>>

\* lines 109-114: the candidate is None, empty or already tested
Skip ==
    /\ pc = "candidate"
    /\ \/ w = None
       \/ Strip(w) = <<>>
       \/ Strip(w) \in tested
    /\ w' = IF w = None THEN None ELSE Strip(w)
    /\ pc' = "loop"
    /\ UNCHANGED <<args, ctor, guesses, warmup_iter, mode, pending_llm_words,
                   sugg, tested, state, win_marker, left_on, result,
                   submitted, log, payload>>

\* ReturnMaxReached reporting the count with the exceeding guess
ReturnMaxReached_Counted ==
    /\ pc = "candidate"
    /\ w # None /\ Strip(w) # <<>> /\ Strip(w) \notin tested
    /\ guesses + 1 > max_guesses
    /\ w' = Strip(w)
    /\ guesses' = guesses + 1
    /\ result' = RunResult(guesses', FALSE)
    /\ pc' = "returned"
    /\ UNCHANGED <<args, ctor, warmup_iter, mode, pending_llm_words, sugg,
                   tested, state, win_marker, left_on, submitted, log,
                   payload>>

\* lines 116-118: the budget is exceeded
ReturnMaxReached ==
    /\ pc = "candidate"
    /\ w # None /\ Strip(w) # <<>> /\ Strip(w) \notin tested
    /\ guesses + 1 > max_guesses
    /\ w' = Strip(w)
    /\ guesses' = guesses + 1
    /\ result' = RunResult(guesses' - 1, FALSE)
    /\ pc' = "returned"
    /\ UNCHANGED <<args, ctor, warmup_iter, mode, pending_llm_words, sugg,
                   tested, state, win_marker, left_on, submitted, log,
                   payload>>

\* SubmitGuess without the budget test of line 117
SubmitGuess_NoBudget ==
    /\ pc = "candidate"
    /\ w # None /\ Strip(w) # <<>> /\ Strip(w) \notin tested
    /\ w' = Strip(w)
    /\ guesses' = guesses + 1
    /\ tested' = tested \cup {w'}
    /\ submitted' = Append(submitted, w')
    /\ log' = Append(log, "guess")
    /\ pc' = "sleep"
    /\ UNCHANGED <<args, ctor, warmup_iter, mode, pending_llm_words, sugg,
                   state, win_marker, left_on, result, payload>>

\* SubmitGuess without the `w in self.tested` test of line 113
SubmitGuess_NoDedup ==
    /\ pc = "candidate"
    /\ w # None /\ Strip(w) # <<>>
    /\ ~(guesses + 1 > max_guesses)
    /\ w' = Strip(w)
    /\ guesses' = guesses + 1
    /\ tested' = tested \cup {w'}
    /\ submitted' = Append(submitted, w')
    /\ log' = Append(log, "guess")
    /\ pc' = "sleep"
    /\ UNCHANGED <<args, ctor, warmup_iter, mode, pending_llm_words, sugg,
                   state, win_marker, left_on, result, payload>>

\* lines 116-121: the word is marked tested and submitted
SubmitGuess ==
    /\ pc = "candidate"
    /\ w # None /\ Strip(w) # <<>> /\ Strip(w) \notin tested
    /\ ~(guesses + 1 > max_guesses)
    /\ w' = Strip(w)
    /\ guesses' = guesses + 1
    /\ tested' = tested \cup {w'}
    /\ submitted' = Append(submitted, w')
    /\ log' = Append(log, "guess")
    /\ pc' = "sleep"
    /\ UNCHANGED <<args, ctor, warmup_iter, mode, pending_llm_words, sugg,
                   state, win_marker, left_on, result, payload>>

\* Sleep followed by the solved check on the state read earlier
Sleep_NoRead ==
    /\ pc = "sleep"
    /\ log' = Append(log, "sleep")
    /\ pc' = "decide"
    /\ UNCHANGED <<args, ctor, guesses, warmup_iter, mode, pending_llm_words,
                   sugg, w, tested, state, win_marker, left_on, result,
                   submitted, payload>>

\* line 122: the pacing delay
Sleep ==
    /\ pc = "sleep"
    /\ log' = Append(log, "sleep")
    /\ pc' = "read"
    /\ UNCHANGED <<args, ctor, guesses, warmup_iter, mode, pending_llm_words,
                   sugg, w, tested, state, win_marker, left_on, result,
                   submitted, payload>>

\* line 123: the read_state after the guess
ReadState ==
    /\ pc = "read"
    /\ \E st \in GameStates : state' = st
    /\ \E marker \in BOOLEAN : win_marker' = marker
    /\ log' = Append(log, "read_state")
    /\ pc' = "decide"
    /\ UNCHANGED <<args, ctor, guesses, warmup_iter, mode, pending_llm_words,
                   sugg, w, tested, left_on, result, submitted, payload>>

\* lines 132-133: solved
ReturnSolved ==
    /\ pc = "decide"
    /\ is_solved(state, win_marker)
    /\ log' = Append(log, "is_solved")
    /\ result' = RunResult(guesses, TRUE)
    /\ pc' = "returned"
    /\ UNCHANGED <<args, ctor, guesses, warmup_iter, mode, pending_llm_words,
                   sugg, w, tested, state, win_marker, left_on, submitted,
                   payload>>

\* LeaveWarmup with the test of line 135 placed before the solved check
LeaveWarmup_BeforeSolved ==
    /\ pc = "decide"
    /\ leave_warmup(mode, state, reveal_threshold, w, words)
    /\ mode' = "llm"
    /\ pending_llm_words' = <<>>
    /\ left_on' = IF RatioGE(reveal_ratio(state), reveal_threshold)
                  THEN "threshold" ELSE "last_word"
    /\ log' = Append(log, "is_solved")
    /\ pc' = "loop"
    /\ UNCHANGED <<args, ctor, guesses, warmup_iter, sugg, w, tested, state,
                   win_marker, result, submitted, payload>>

\* lines 132-137: not solved, warm-up is left
LeaveWarmup ==
    /\ pc = "decide"
    /\ ~is_solved(state, win_marker)
    /\ leave_warmup(mode, state, reveal_threshold, w, words)
    /\ mode' = "llm"
    /\ pending_llm_words' = <<>>
    /\ left_on' = IF RatioGE(reveal_ratio(state), reveal_threshold)
                  THEN "threshold" ELSE "last_word"
    /\ log' = Append(log, "is_solved")
    /\ pc' = "loop"
    /\ UNCHANGED <<args, ctor, guesses, warmup_iter, sugg, w, tested, state,
                   win_marker, result, submitted, payload>>

\* lines 132-135: not solved, the mode is kept
NextCycle ==
    /\ pc = "decide"
    /\ ~is_solved(state, win_marker)
    /\ ~leave_warmup(mode, state, reveal_threshold, w, words)
    /\ log' = Append(log, "is_solved")
    /\ pc' = "loop"
    /\ UNCHANGED <<args, ctor, guesses, warmup_iter, mode, pending_llm_words,
                   sugg, w, tested, state, win_marker, left_on, result,
                   submitted, payload>>

Next ==
    \/ TakeWarmup
    \/ WarmupExhausted
    \/ ReturnNoOracle
    \/ RefillRead
    \/ SuggestRaises
    \/ SuggestEmpty
    \/ SuggestEnqueue
    \/ PopPending
    \/ Skip
    \/ ReturnMaxReached
    \/ SubmitGuess
    \/ Sleep
    \/ ReadState
    \/ ReturnSolved
    \/ LeaveWarmup
    \/ NextCycle

Spec == Init /\ [][Next]_vars

\* run() is one thread of control with no blocking wait of its own: as long
\* as a step of the loop is possible, one is taken
FairSpec == Spec /\ WF_vars(Next)

(***************************************************************************)
(* The client alone: a page is loaded and read_state() is called on it.    *)
(***************************************************************************)
InitTokens ==
    /\ words = <<>>
    /\ max_guesses = 0
    /\ reveal_threshold \in Thresholds
    /\ llm_batch_size = 0
    /\ llm_enabled = FALSE
    /\ guesses = 0
    /\ warmup_iter = 0
    /\ mode = "warmup"
    /\ pending_llm_words = <<>>
    /\ sugg = <<>>
    /\ w = None
    /\ tested = {}
    /\ state = NoState
    /\ win_marker = FALSE
    /\ left_on = "none"
    /\ pc = "loop"
    /\ result = NoResult
    /\ submitted = <<>>
    /\ log = <<>>
    /\ payload \in Payloads

\* PedantixWebClient.read_state
ClientReadState ==
    /\ state' = read_state(payload)
    /\ UNCHANGED <<args, ctor, guesses, warmup_iter, mode, pending_llm_words,
                   sugg, w, tested, win_marker, left_on, pc, result,
                   submitted, log, payload>>

NextTokens == ClientReadState

SpecTokens == InitTokens /\ [][NextTokens]_vars

(***************************************************************************)
(* Properties.                                                             *)
(***************************************************************************)
\* the set of the words passed to client.guess
SubmittedSet == {submitted[i] : i \in 1..Len(submitted)}

\* the run ended on the budget test of lines 117-118
MaxReached == guesses > max_guesses

\* the solved condition on the state read after a guess: the win marker, or
\* "bravo" or "gagn" in the lowercased title + " " + article text
SolvedRead ==
    \/ win_marker
    \/ LET txt == Lower(state.title_text \o <<" ">> \o state.article_text)
       IN  \/ Contains(txt, <<"b", "r", "a", "v", "o">>)
           \/ Contains(txt, <<"g", "a", "g", "n">>)

\* C1: run never passes more than max_guesses words to client.guess; when a
\* candidate exceeds the budget the run has returned solved=false with
\* guesses_made equal to the number of words submitted, and the exceeding
\* candidate is neither submitted nor in the tested set.
C1_BudgetRespected ==
    /\ Len(submitted) <= max_guesses
    /\ MaxReached =>
          /\ pc = "returned"
          /\ result = RunResult(Len(submitted), FALSE)
          /\ w \notin tested
          /\ w \notin SubmittedSet

\* C1 witness: a budget of at least two is used up and one more candidate
\* ended the run.
C1_Witness ==
    /\ pc = "returned" /\ MaxReached
    /\ max_guesses >= 2
    /\ Len(submitted) = max_guesses

\* C2: no trimmed word is passed to client.guess twice, and every word passed
\* is in the tested set.
C2_NoResubmission ==
    /\ \A i, j \in 1..Len(submitted) : i # j => submitted[i] # submitted[j]
    /\ SubmittedSet = tested

\* C2 witness: the second warm-up word was already tested and was skipped.
C2_Witness ==
    /\ pc = "loop" /\ mode = "warmup"
    /\ warmup_iter = 2
    /\ Len(submitted) = 1
    /\ w \in tested

\* lowercase of the tested words
TestedLower == {Lower(x) : x \in tested}

\* C3: a candidate that is empty after trimming, or equal to a tested word
\* after trimming and lowercasing, is skipped: the next step goes back to the
\* loop head with no guess counted, no word submitted, no call on the
\* Renderer and no pacing delay.
C3_SkipCaseInsensitive ==
    [][(/\ pc = "candidate"
        /\ w # None
        /\ \/ Strip(w) = <<>>
           \/ Lower(Strip(w)) \in TestedLower)
       => /\ pc' = "loop"
          /\ UNCHANGED <<guesses, tested, submitted, log>>]_vars

\* C4: when the state read after a guess is solved, the next step returns
\* solved=true with guesses_made counting that guess, without a mode change;
\* nothing happens after a return.
C4_SolvedEndsRun ==
    [][/\ (pc = "decide" /\ SolvedRead)
          => /\ pc' = "returned"
             /\ result' = RunResult(Len(submitted), TRUE)
             /\ log' = Append(log, "is_solved")
             /\ UNCHANGED <<mode, pending_llm_words, submitted, tested>>
       /\ pc # "returned"]_vars

\* C4 witness: a run returned solved=true from warm-up mode on the text of a
\* state whose reveal ratio had reached the threshold.
C4_Witness ==
    /\ pc = "returned" /\ result.solved
    /\ ~win_marker
    /\ mode = "warmup"
    /\ RatioGE(reveal_ratio(state), reveal_threshold)

\* the stripped warm-up words not yet taken from the iterator
PendingWarmup == {Strip(words[i]) : i \in (warmup_iter + 1)..Len(words)}

\* the reveal ratio of the last state read has reached the threshold
ThresholdReached ==
    LET r == reveal_ratio(state)
    IN  r.num * reveal_threshold.den >= reveal_threshold.num * r.den

\* C5 as stated: once warm-up was left on the reveal ratio, no word equal to a
\* still-pending warm-up word is passed to client.guess.
C5_PendingNeverSubmitted ==
    [][(left_on = "threshold" /\ Len(submitted') > Len(submitted))
       => submitted'[Len(submitted')] \notin PendingWarmup]_vars

\* C5 amended: in warm-up mode an unsolved read whose reveal ratio has reached
\* the threshold makes the next step set the mode to llm with an empty queue,
\* back at the loop head; from then on the mode stays llm, the warm-up
\* iterator is never advanced, and every candidate is popped from the queue.
C5_WarmupDiscarded ==
    [][/\ (pc = "decide" /\ mode = "warmup" /\ ~SolvedRead /\ ThresholdReached)
          => /\ mode' = "llm"
             /\ pending_llm_words' = <<>>
             /\ pc' = "loop"
       /\ mode = "llm"
          => /\ mode' = "llm"
             /\ warmup_iter' = warmup_iter
       /\ (mode = "llm" /\ pc' = "candidate")
          => /\ pending_llm_words # <<>>
             /\ w' = Head(pending_llm_words)
             /\ pending_llm_words' = Tail(pending_llm_words)]_vars

\* C5 witness: warm-up was left on the reveal ratio with words still pending,
\* and a word of the oracle has been submitted since.
C5_Witness ==
    /\ left_on = "threshold"
    /\ PendingWarmup # {}
    /\ pc = "sleep"
    /\ mode = "llm"

\* C6: when the mode goes from warmup to llm on a read whose reveal ratio is
\* below the threshold, every warm-up word before the final position has
\* been taken from the iterator.
C6_WarmupLeftOnlyAtEnd ==
    [][(mode = "warmup" /\ mode' = "llm" /\ ~ThresholdReached)
       => warmup_iter >= Len(words) - 1]_vars

\* C7: after a failed oracle call the run has returned solved=false with
\* guesses_made equal to the number of words submitted.
C7_OracleFailureExhausts ==
    pc = "raised" => result = RunResult(Len(submitted), FALSE)

\* C8: with an empty queue in llm mode, a disabled oracle or an empty first
\* llm_batch_size words of the answer end the run with solved=false and
\* guesses_made equal to the number of words submitted; otherwise the queue
\* becomes exactly the first llm_batch_size words of the answer, in order;
\* the queue never holds more than llm_batch_size words.
C8_RefillOrExhausted ==
    /\ [](Len(pending_llm_words) <= llm_batch_size)
    /\ [][/\ (pc = "loop" /\ mode = "llm" /\ pending_llm_words = <<>>
                 /\ ~llm_enabled)
             => /\ pc' = "returned"
                /\ result' = RunResult(Len(submitted), FALSE)
                /\ submitted' = submitted
          /\ (pc = "suggest" /\ pc' # "raised")
             => LET n == IF llm_batch_size < Len(sugg')
                         THEN llm_batch_size ELSE Len(sugg')
                IN  IF n = 0
                    THEN /\ pc' = "returned"
                         /\ result' = RunResult(Len(submitted), FALSE)
                         /\ submitted' = submitted
                    ELSE /\ pc' = "pop"
                         /\ pending_llm_words' = [i \in 1..n |-> sugg'[i]]
          /\ pc # "returned"]_vars

\* C8 witness: the oracle answered more words than llm_batch_size and the
\* queue holds the first llm_batch_size of them.
C8_Witness ==
    /\ pc = "pop"
    /\ llm_batch_size >= 1
    /\ Len(sugg) > llm_batch_size
    /\ Len(pending_llm_words) = llm_batch_size

\* C9: between guess cycles the tested set has as many words as guesses were
\* submitted; a returned guesses_made is its size; the set never loses a
\* word and a skipped candidate leaves it unchanged.
C9_TestedCountsGuesses ==
    /\ [](/\ pc = "loop"
             => /\ Cardinality(tested) = Len(submitted)
                /\ Cardinality(tested) = guesses
          /\ pc = "returned" => result.guesses_made = Cardinality(tested))
    /\ [][/\ tested \subseteq tested'
          /\ (pc = "candidate" /\ pc' = "loop") => tested' = tested]_vars

\* C9 witness: a run took three warm-up words, skipped one of them, and
\* returned exhausted with two tested words.
C9_Witness ==
    /\ pc = "returned" /\ ~result.solved /\ ~MaxReached
    /\ warmup_iter = 3
    /\ Cardinality(tested) = 2
    /\ sugg = <<>>

\* C10: in the order of the calls, every guess is followed by a pacing delay,
\* then a state read, then the solved check; a pacing delay only follows a
\* guess, and a solved check only follows the delay and the read of a guess.
C10_StrictlySequential ==
    \A i \in 1..Len(log) :
        /\ log[i] = "guess"
           => /\ i + 1 <= Len(log) => log[i + 1] = "sleep"
              /\ i + 2 <= Len(log) => log[i + 2] = "read_state"
              /\ i + 3 <= Len(log) => log[i + 3] = "is_solved"
              /\ pc \in {"loop", "suggest", "pop", "candidate", "returned",
                         "raised"} => i + 3 <= Len(log)
        /\ log[i] = "sleep" => i > 1 /\ log[i - 1] = "guess"
        /\ log[i] = "is_solved"
           => i > 3 /\ log[i - 1] = "read_state" /\ log[i - 2] = "sleep"
                    /\ log[i - 3] = "guess"

\* C10 witness: two guesses were submitted with an oracle call between them.
C10_Witness ==
    /\ Len(submitted) = 2
    /\ pc = "loop"
    /\ \E i, j, k \in 1..Len(log) :
          /\ i < j /\ j < k
          /\ log[i] = "guess" /\ log[j] = "suggest_words" /\ log[k] = "guess"

(***************************************************************************)
(* Properties of the token classifier.                                     *)
(***************************************************************************)
\* a snapshot has been read
StateRead == state # NoState

Hidden(t) == t.text = None
Hinted(t) == t.text # None /\ t.color # <<>> /\ t.color # DEFAULT_TEXT_COLOR
Revealed(t) == t.text # None /\ (t.color = <<>> \/ t.color = DEFAULT_TEXT_COLOR)

HiddenAt(b) == {i \in 1..Len(b) : Hidden(b[i])}
HintedAt(b) == {i \in 1..Len(b) : Hinted(b[i])}
RevealedAt(b) == {i \in 1..Len(b) : Revealed(b[i])}

\* the counts a section of the state must show for the batch b, given the
\* hint words hs recorded for it
SectionCounts(b, revealed_count, token_count, hs) ==
    /\ \A i \in 1..Len(b) :
           Cardinality({k \in {"hidden", "hinted", "revealed"} :
               \/ k = "hidden" /\ i \in HiddenAt(b)
               \/ k = "hinted" /\ i \in HintedAt(b)
               \/ k = "revealed" /\ i \in RevealedAt(b)}) = 1
    /\ revealed_count = Cardinality(RevealedAt(b))
    /\ Len(hs) = Cardinality(HintedAt(b))
    /\ revealed_count + Len(hs) <= token_count
    /\ token_count = Len(b)

\* C11: in every state read from a page, each token of a batch is of exactly
\* one kind (hidden, hinted, revealed); per section the revealed count is the
\* number of revealed tokens, one hint word is recorded per hinted token, so
\* revealed_count + recorded hint words <= token_count, and token_count is
\* the length of the batch (0 for the empty batch).
C11_TokensClassifiedOnce ==
    StateRead =>
        /\ SectionCounts(payload.titleSpans, state.title_revealed_count,
               state.title_token_count,
               process_tokens(payload.titleSpans).hint_words)
        /\ SectionCounts(payload.articleSpans, state.article_revealed_count,
               state.article_token_count,
               process_tokens(payload.articleSpans).hint_words)
        /\ (payload.titleSpans = <<>> => state.title_token_count = 0)
        /\ (payload.articleSpans = <<>> => state.article_token_count = 0)

\* a page read whose title is one hidden token and whose body holds a hinted
\* and a revealed token
C11_Witness ==
    /\ StateRead
    /\ HiddenAt(payload.titleSpans) = {1}
    /\ HintedAt(payload.articleSpans) = {1}
    /\ RevealedAt(payload.articleSpans) = {2}
    /\ state.article_revealed_count = 1
    /\ state.article_token_count = 2

\* the decimal spelling of the ids and lengths the pages use
IdText(id) ==
    CASE id = null -> <<"-", "1">>
      [] id = Some(3) -> <<"3">>
      [] id = Some(4) -> <<"4">>
      [] id = Some(5) -> <<"5">>
      [] id = Some(7) -> <<"7">>
      [] id = Some(8) -> <<"8">>
      [] id = Some(12) -> <<"1", "2">>

LengthText(hidden_len) ==
    CASE hidden_len = null -> <<>>
      [] hidden_len = Some(0) -> <<>>
      [] hidden_len = Some(2) -> <<"~", "2">>
      [] hidden_len = Some(5) -> <<"~", "5">>

\* what a token must contribute to the text of the section with this prefix
Emitted(t, prefix) ==
    IF Revealed(t) THEN t.text
    ELSE <<"⟦", prefix>> \o IdText(t.id) \o LengthText(t.hiddenLen) \o <<"⟧">>

\* the emitted strings of the batch b from token i on, joined by one space
RECURSIVE Joined(_, _, _)
Joined(b, i, prefix) ==
    IF i > Len(b) THEN <<>>
    ELSE IF i = Len(b) THEN Emitted(b[i], prefix)
    ELSE Emitted(b[i], prefix) \o <<" ">> \o Joined(b, i + 1, prefix)

\* the text of a hinted token of b is not shown, unless a revealed token of
\* the batch shows the same characters
HintTextAbsent(b, text) ==
    \A i \in HintedAt(b) :
        (\A j \in RevealedAt(b) : ~Contains(b[j].text, b[i].text))
            => ~Contains(text, b[i].text)

body_12_5 == <<"⟦", "w", "1", "2", "~", "5", "⟧">>
title_3 == <<"⟦", "t", "3", "⟧">>

AllTokens == payload.titleSpans \o payload.articleSpans

\* the score of the ink colours the pages use, in units of 1/510:
\* yellow (255+255)/2 - 0, orange (255+128)/2 - 0, red (255+0)/2 - 0
ColorScore(color) ==
    CASE color = yellow -> 510
      [] color = orange -> 383
      [] color = red -> 255

HintedWords == {Lower(AllTokens[i].text) : i \in HintedAt(AllTokens)}

BestScore(word) ==
    LET scores == {ColorScore(AllTokens[i].color) :
                       i \in {j \in HintedAt(AllTokens) :
                                  Lower(AllTokens[j].text) = word}}
    IN  CHOOSE x \in scores : \A y \in scores : y <= x

\* the revealed words of the page in token order, title first
RevealedSeq ==
    LET shown == SelectSeq(AllTokens, Revealed)
    IN  [i \in 1..Len(shown) |-> Lower(shown[i].text)]

FirstAt(word, ws) ==
    CHOOSE i \in 1..Len(ws) : ws[i] = word /\ \A j \in 1..(i - 1) : ws[j] # word

\* C13: in the state read from a title batch and a body batch, hint_words
\* holds each lowercased hinted word exactly once with the maximum score of
\* its occurrences in both sections, in non-increasing order of score, and
\* revealed_words holds the title's revealed words followed by the body's,
\* each once, in the order of their first occurrences.
C13_HintsMergedRevealedDeduped ==
    StateRead =>
        LET hs == state.hint_words
            rs == state.revealed_words
        IN  /\ {hs[i].word : i \in 1..Len(hs)} = HintedWords
            /\ Len(hs) = Cardinality(HintedWords)
            /\ \A i \in 1..Len(hs) : hs[i].score = BestScore(hs[i].word)
            /\ \A i, j \in 1..Len(hs) : i < j => hs[i].score >= hs[j].score
            /\ Range(rs) = Range(RevealedSeq)
            /\ Len(rs) = Cardinality(Range(RevealedSeq))
            /\ \A i, j \in 1..Len(rs) :
                   i < j => FirstAt(rs[i], RevealedSeq)
                                < FirstAt(rs[j], RevealedSeq)

\* a page read with "chat" hinted in red in the title and in yellow after an
\* orange "Bon" in the body: two hint words, "chat" first with the yellow score
C13_Witness ==
    /\ StateRead
    /\ Len(payload.titleSpans) = 1
    /\ payload.titleSpans[1].color = red
    /\ Len(payload.articleSpans) = 2
    /\ payload.articleSpans[1].color = orange
    /\ payload.articleSpans[2].color = yellow
    /\ state.hint_words = <<HintWord(chat, 510), HintWord(bon, 383)>>

\* a page read with two different revealed words, one of them twice
C13_RevealedTwice ==
    /\ StateRead
    /\ Len(RevealedSeq) = 3
    /\ state.revealed_words = <<bon, chat>>

(***************************************************************************)
(* Termination of run().                                                   *)
(***************************************************************************)
\* a RunResult has been returned: solved, exhausted or max-reached
Terminated == pc = "returned" /\ result.returned

\* C14: every execution of run() eventually returns one of the terminal
\* outcomes solved, exhausted or max-reached.
C14_RunTerminates == <>Terminated

\* the position in one iteration of the loop, counted down to the step that
\* uses up a warm-up word (TakeWarmup) or a unit of the budget (SubmitGuess)
Rank ==
    CASE pc = "candidate" /\ mode = "warmup" -> 8
      [] pc = "sleep" -> 7
      [] pc = "read" -> 6
      [] pc = "decide" -> 5
      [] pc = "loop" -> 4
      [] pc = "suggest" -> 3
      [] pc = "pop" -> 2
      [] pc = "candidate" /\ mode = "llm" -> 1
      [] pc \in {"returned", "raised"} -> 0

\* what is left to use up: the warm-up mode and its words, the budget, and
\* the rest of the current iteration
Measure ==
    (IF mode = "warmup" THEN 10 ELSE 0)
        + 10 * (Len(words) - warmup_iter)
        + 10 * (max_guesses + 1 - guesses)
        + Rank

\* every step of run() decreases the measure, which is never negative, and
\* a run that has neither returned nor raised can take a step: so the run
\* ends, by a RunResult or by the exception of the oracle
C14_MeasureDecreases == [][Measure' < Measure]_vars
C14_MeasureNatural == Measure >= 0
C14_NoStall ==
    \/ pc \in {"returned", "raised"}
    \/ pc = "suggest" /\ SuggestOutcomes(tested, state.revealed_words) # {}
    \/ pc # "suggest" /\ ENABLED Next

\* a candidate popped from the oracle queue is never skipped: after a refill
\* the next step of the loop counts a guess (submitted or over the budget)
C14_RefillLeadsToGuess ==
    [][(pc = "candidate" /\ mode = "llm") => pc' # "loop"]_vars

====
